---- MODULE Spec2Model ----
(***************************************************************************)
(* A model of midi-toolkit's note-stream merger (merge_notes_array) and of *)
(* its track decoder (TrackParser).                                        *)
(*                                                                         *)
(* Vec indices are 1-based here (TLA+ sequences), 0-based in the source.   *)
(***************************************************************************)
EXTENDS Integers, Sequences, FiniteSets, TLC

\* ------------------------------------------------------------------ bounds
\* The merger's inputs: at most MaxStreams iterators holding at most MaxNotes
\* items altogether, with start times in 0..MaxTime.
MaxStreams == 3
MaxNotes == 4
MaxTime == 2
\* The decoder's inputs: tracks of at most MaxChunks pieces of the chunk
\* library; next() is called at most MaxIdleCalls times after the iteration's
\* end; a fixed-layout meta event declares a length of at most MaxMetaLen.
MaxChunks == 3
MaxIdleCalls == 2
MaxMetaLen == 6
\* The continuation bytes of a variable-length integer: with the last byte, 70
\* bits of payload for a 64-bit accumulator.
MaxVarLen == 9

VARIABLES
    \* -- merge_notes_array
    array,           \* the Vec<I> argument: array[i] is what iterator i yields
    iters,           \* iters[i]: how many times iterator i has been pulled
    seqences,        \* the generator's Vec<SeqTime>
    k,               \* position of `for seq in array.into_iter()`
    pc,              \* where the generator is suspended
    smallest_index,  \* locals of the while body
    smallest_time,
    next,            \* the local `next` held across `yield Ok(note)`
    mout,            \* what the generator has yielded, in order
    scan,            \* history: the cursors the last scan saw, <<>> once used
    mhist,           \* history: for each yielded item, the scan that chose it
    errSnap,         \* history: iters when an error was yielded, else <<>>
    \* -- TrackParser
    parser,          \* the decoder: reader, pushback, prev_command, errored
    pout,            \* the log of the calls of next() on it
    checkpoint,      \* <<c, n>>: ParserCheckpoint c taken after n calls, or <<>>
    restored,        \* <<the decoder from_checkpoint built>>, <<"panic">> or <<>>
    rout             \* the log of the calls of next() on the restored decoder

mergeVars == <<array, iters, seqences, k, pc, smallest_index, smallest_time,
               next, mout, scan, mhist, errSnap>>

parserVars == <<parser, pout, checkpoint, restored, rout>>

vars == <<mergeVars, parserVars>>

\* ------------------------------------------------------------ merge inputs
\* Option<Result<N, Err>> as one record shape.
OkItem(t, i, j) == [tag |-> "Ok", time |-> t, src |-> i, idx |-> j]
ErrItem(i, j) == [tag |-> "Err", time |-> -1, src |-> i, idx |-> j]
NoneItem == [tag |-> "None", time |-> -1, src |-> 0, idx |-> 0]

RECURSIVE SortedTimes(_, _)
\* The non-decreasing sequences of n times, each at least lo.
SortedTimes(n, lo) ==
    IF n = 0 THEN {<<>>}
    ELSE UNION {{<<t>> \o s : s \in SortedTimes(n - 1, t)} : t \in lo..MaxTime}

RECURSIVE TimeArrays(_, _)
\* The arrays of n sorted streams holding at most `left` times altogether.
TimeArrays(n, left) ==
    IF n = 0 THEN {<<>>}
    ELSE UNION {LET rest == TimeArrays(n - 1, left - m) IN
                  {<<s>> \o a : s \in SortedTimes(m, 0), a \in rest}
                : m \in 0..left}

\* The worked example of the merger's ordering: start times [0,5], [0,3], [2].
ExampleTimes == << <<0, 5>>, <<0, 3>>, <<2>> >>
ExampleArrays == {ExampleTimes}

\* At most one item of the array is an error; <<0, 0>> is no error at all.
ErrSites(ta) ==
    {<<0, 0>>} \cup UNION {{<<i, j>> : j \in 1..Len(ta[i])} : i \in 1..Len(ta)}

MkArray(ta, site) ==
    [i \in 1..Len(ta) |->
        [j \in 1..Len(ta[i]) |->
            IF site = <<i, j>> THEN ErrItem(i, j) ELSE OkItem(ta[i][j], i, j)]]

MergeInputs ==
    ExampleArrays \cup UNION {TimeArrays(n, MaxNotes) : n \in 0..MaxStreams}

\* The decoder of a specification that runs the merger only.
ParserIdle ==
    /\ parser = <<>> /\ pout = <<>> /\ checkpoint = <<>> /\ restored = <<>>
    /\ rout = <<>>

\* --------------------------------------------------------- merge_notes_array
MergeInit ==
    /\ ParserIdle
    /\ \E ta \in MergeInputs : \E site \in ErrSites(ta) : array = MkArray(ta, site)
    /\ iters = [i \in 1..Len(array) |-> 0]
    /\ seqences = <<>>
    /\ k = 1
    /\ pc = "setup"
    /\ smallest_index = 1
    /\ smallest_time = 0
    /\ next = NoneItem
    /\ mout = <<>>
    /\ scan = <<>>
    /\ mhist = <<>>
    /\ errSnap = <<>>

\* iter.next() on iterator i: its next item, None once it is exhausted.
Pull(i) == IF iters[i] < Len(array[i]) THEN array[i][iters[i] + 1] ELSE NoneItem
Pulled(i) == [iters EXCEPT ![i] = @ + 1]

\* Mutant: the cursor records the time of the first note and not the note.
SeqTimeWithoutNote(i, e) == [iter |-> i, time |-> e.time, next |-> NoneItem]

SeqTime(i, e) == [iter |-> i, time |-> e.time, next |-> e]

\* yield_error!(Err(e)): yield the error, then return from the generator.
YieldError(e) ==
    /\ mout' = Append(mout, e)
    /\ mhist' = Append(mhist, <<>>)
    /\ errSnap' = <<iters'>>
    /\ pc' = "yield_error"

ReturnAfterError ==
    /\ UNCHANGED parserVars
    /\ pc = "yield_error"
    /\ pc' = "done"
    /\ UNCHANGED <<array, iters, seqences, k, smallest_index, smallest_time,
                   next, mout, scan, mhist, errSnap>>

\* Mutant: an errored stream is skipped like an exhausted one.
SetupSkipErr(e) ==
    /\ k' = k + 1
    /\ UNCHANGED <<seqences, pc, mout, mhist, errSnap>>

\* What the setup loop does with a first item that is an error.
SetupOnErr(e) ==
    /\ YieldError(e)
    /\ UNCHANGED <<seqences, k>>

\* One iteration of `for mut seq in array.into_iter()`.
SetupPull ==
    /\ UNCHANGED parserVars
    /\ pc = "setup"
    /\ k <= Len(array)
    /\ LET first == Pull(k) IN
        /\ iters' = Pulled(k)
        /\ CASE first.tag = "None" ->
                  /\ k' = k + 1
                  /\ UNCHANGED <<seqences, pc, mout, mhist, errSnap>>
             [] first.tag = "Err" -> SetupOnErr(first)
             [] first.tag = "Ok" ->
                  /\ seqences' = Append(seqences, SeqTime(k, first))
                  /\ k' = k + 1
                  /\ UNCHANGED <<pc, mout, mhist, errSnap>>
    /\ UNCHANGED <<array, smallest_index, smallest_time, next, scan>>

SetupDone ==
    /\ UNCHANGED parserVars
    /\ pc = "setup"
    /\ k > Len(array)
    /\ pc' = "while"
    /\ UNCHANGED <<array, iters, seqences, k, smallest_index, smallest_time,
                   next, mout, scan, mhist, errSnap>>

\* Mutants of the scan's comparison: the largest time, and the last of a tie.
TimeGreater(a, b) == a > b
TimeLessEq(a, b) == a <= b

\* `if next.time < smallest_time`
TimeLess(a, b) == a < b

RECURSIVE ScanLoop(_, _, _, _)
\* `for i in 0..len`, from index i on, with the smallest found so far.
ScanLoop(seqs, i, si, st) ==
    IF i > Len(seqs) THEN [index |-> si, time |-> st]
    ELSE IF TimeLess(seqs[i].time, st)
         THEN ScanLoop(seqs, i + 1, i, seqs[i].time)
         ELSE ScanLoop(seqs, i + 1, si, st)

\* The head of `while seqences.len() > 0` and the scan for the smallest time.
While ==
    /\ UNCHANGED parserVars
    /\ pc = "while"
    /\ IF Len(seqences) > 0
       THEN LET s == ScanLoop(seqences, 1, 1, seqences[1].time) IN
              /\ smallest_index' = s.index
              /\ smallest_time' = s.time
              /\ scan' = <<[c \in 1..Len(seqences) |->
                              [iter |-> seqences[c].iter,
                               time |-> seqences[c].time]]>>
              /\ pc' = "loop"
       ELSE /\ pc' = "done"
            /\ UNCHANGED <<smallest_index, smallest_time, scan>>
    /\ UNCHANGED <<array, iters, seqences, k, next, mout, mhist, errSnap>>

\* The head of `loop`: take the held note, pull the iterator, yield the note.
Loop ==
    /\ UNCHANGED parserVars
    /\ pc = "loop"
    /\ LET smallest == seqences[smallest_index] IN
        IF smallest.next.tag = "None"
        THEN /\ pc' = "panic"
             /\ UNCHANGED <<iters, seqences, next, mout, mhist, scan>>
        ELSE /\ seqences' = [seqences EXCEPT ![smallest_index].next = NoneItem]
             /\ next' = Pull(smallest.iter)
             /\ iters' = Pulled(smallest.iter)
             /\ mout' = Append(mout, smallest.next)
             /\ mhist' = Append(mhist, scan)
             /\ scan' = <<>>
             /\ pc' = "yielded"
    /\ UNCHANGED <<array, k, smallest_index, smallest_time, errSnap>>

\* Mutant: the first cursor is removed, whichever one was exhausted.
RemoveFirst(seqs, i) == Tail(seqs)

\* Vec::remove(i): the elements after i shift down, keeping their order.
Remove(seqs, i) == [c \in 1..Len(seqs) - 1 |-> IF c < i THEN seqs[c] ELSE seqs[c + 1]]

\* Mutant: the loop is left after every note, so every note is re-scanned.
RunAlwaysEnds(t, st) == TRUE

\* `if seqences[smallest_index].time != smallest_time { break; }`
RunEnds(t, st) == t # st

\* The rest of the loop body, resumed after `yield Ok(note)`.
Resume ==
    /\ UNCHANGED parserVars
    /\ pc = "yielded"
    /\ UNCHANGED <<array, iters, k, smallest_index, smallest_time, scan>>
    /\ CASE next.tag = "None" ->
              /\ seqences' = Remove(seqences, smallest_index)
              /\ pc' = "while"
              /\ UNCHANGED <<mout, mhist, errSnap>>
         [] next.tag = "Err" ->
              \* unwrap!(next)
              /\ YieldError(next)
              /\ UNCHANGED seqences
         [] next.tag = "Ok" ->
              /\ seqences' = [seqences EXCEPT ![smallest_index].time = next.time,
                                              ![smallest_index].next = next]
              /\ pc' = IF RunEnds(next.time, smallest_time) THEN "while" ELSE "loop"
              /\ UNCHANGED <<mout, mhist, errSnap>>
    /\ next' = NoneItem

MergeNext == SetupPull \/ SetupDone \/ While \/ Loop \/ Resume \/ ReturnAfterError

SpecMerge == MergeInit /\ [][MergeNext]_vars

\* ------------------------------------------------------------ byte-source
\* The TrackReader capability: read(), pos(), is_at_end(), track_number().
\* reads and queries count the calls made on it (history).
Reader(data, pos) ==
    [data |-> data, pos |-> pos, track_number |-> 7, reads |-> 0, queries |-> 0]

\* Result<T, MIDIParseError> of a step, with the decoder after the step.
Ok(v, p) == [ok |-> TRUE, v |-> v, p |-> p]
Fail(e, p) == [ok |-> FALSE, v |-> e, p |-> p]

\* `let x = v;` then F(x), with v evaluated once.
Let(v, F(_)) == CHOOSE y \in {F(x) : x \in {v}} : TRUE

\* `let x = r?;` then F(x): an Err result is returned as it is.
Try(r, F(_)) == Let(r, LAMBDA x : IF x.ok THEN F(x) ELSE x)

\* The byte-source's own error at the end of the data.
ReadFailure(p) ==
    [kind |-> "UnexpectedEOF", track_number |-> p.reader.track_number,
     position |-> p.reader.pos]

CorruptEvent(p) ==
    [kind |-> "CorruptEvent", track_number |-> p.reader.track_number,
     position |-> p.reader.pos]

ReaderRead(p) ==
    IF p.reader.pos < Len(p.reader.data)
    THEN Ok(p.reader.data[p.reader.pos + 1],
            [p EXCEPT !.reader.reads = @ + 1, !.reader.pos = @ + 1])
    ELSE Fail(ReadFailure(p), [p EXCEPT !.reader.reads = @ + 1])

IsAtEnd(p) == p.reader.pos >= Len(p.reader.data)

\* ------------------------------------------------------------- TrackParser
TrackParser(reader, pushback, prev_command, errored) ==
    [reader |-> reader, pushback |-> pushback, prev_command |-> prev_command,
     errored |-> errored]

new(reader) == TrackParser(reader, -1, 0, FALSE)

\* Mutant: the held byte is returned and stays in the slot.
read_keeps_pushback(p) ==
    IF p.pushback # -1 THEN Ok(p.pushback % 256, p) ELSE ReaderRead(p)

read(p) ==
    IF p.pushback # -1
    THEN Ok(p.pushback % 256, [p EXCEPT !.pushback = -1])
    ELSE ReaderRead(p)

read_fast(p) == ReaderRead(p)

\* u64 as four 16-bit limbs, most significant first.
U64(v) == <<0, 0, v \div 65536, v % 65536>>

\* Mutant: the accumulator is 32 bits wide.
ShlOr7_u32(n, payload) ==
    <<0, 0,
      ((n[3] * 128) % 65536) + (n[4] \div 512),
      ((n[4] * 128) % 65536) + payload>>

\* (n << 7) | payload in u64, for payload < 128: the bits shifted out are lost.
ShlOr7(n, payload) ==
    <<((n[1] * 128) % 65536) + (n[2] \div 512),
      ((n[2] * 128) % 65536) + (n[3] \div 512),
      ((n[3] * 128) % 65536) + (n[4] \div 512),
      ((n[4] * 128) % 65536) + payload>>

RECURSIVE VarLengthLoop(_, _)
VarLengthLoop(p, n) ==
    Try(read(p), LAMBDA byte :
        Let(ShlOr7(n, byte.v % 128), LAMBDA m :
            IF byte.v \div 128 = 0 THEN Ok(m, byte.p) ELSE VarLengthLoop(byte.p, m)))

read_var_length(p) == VarLengthLoop(p, U64(0))

\* `for _ in 0..size`: the number of turns, which no track of the model reaches
\* once the size needs more than 16 bits.
Turns(size) == IF size[1] = 0 /\ size[2] = 0 /\ size[3] = 0 THEN size[4] ELSE 65536

RECURSIVE ReadData(_, _, _)
\* `for _ in 0..size { data.push(self.read_fast()?); }`
ReadData(p, turns, data) ==
    IF turns = 0 THEN Ok(data, p)
    ELSE Try(read_fast(p), LAMBDA byte :
             Let(Append(data, byte.v), LAMBDA pushed :
                 Let(turns - 1, LAMBDA left : ReadData(byte.p, left, pushed))))

Event(kind, delta, args) == [kind |-> kind, delta |-> delta, args |-> args]
\* Ok(None): the event was skipped.
Skipped == [kind |-> "Skipped", delta |-> <<>>, args |-> <<>>]

\* x | y for x a multiple of 128 and y a byte.
Or7(x, y) ==
    ((x \div 256) * 256) + (IF (x \div 128) % 2 = 1 \/ y >= 128 THEN 128 ELSE 0)
    + (y % 128)

I16(x) == ((x + 32768) % 65536) - 32768

\* `let a = self.read()?;` and then the event F(a).
WithRead(p, F(_)) == Try(read(p), LAMBDA a : Ok(F(a.v), a.p))

\* `let a = self.read()?; let b = self.read_fast()?;` and then the event F(a, b).
WithRead2(p, F(_, _)) ==
    Try(read(p), LAMBDA a : Try(read_fast(a.p), LAMBDA b : Ok(F(a.v, b.v), b.p)))

\* read_var_length, then that many bytes, then the event F(data).
WithData(p, F(_)) ==
    Try(read_var_length(p), LAMBDA size :
        Try(ReadData(size.p, Turns(size.v), <<>>), LAMBDA data : Ok(F(data.v), data.p)))

\* Mutant: the declared length is read and not compared.
assert_len_unchecked(p, size) ==
    Try(read_fast(p), LAMBDA len : Ok(size, len.p))

\* assert_len!(size)
assert_len(p, size) ==
    Try(read_fast(p), LAMBDA len :
        IF len.v # size THEN Fail(CorruptEvent(len.p), len.p) ELSE Ok(size, len.p))

\* assert_len!(size), then `count` bytes by read_fast, then the event F(bytes).
WithFixed(p, size, count, F(_)) ==
    Try(assert_len(p, size), LAMBDA len :
        Try(ReadData(len.p, count, <<>>), LAMBDA data : Ok(F(data.v), data.p)))

\* The arm `0xFF => { let command = self.read()?; match command {...} }`.
ParseMeta(p, delta) ==
    Try(read(p), LAMBDA c :
         LET command == c.v
             q == c.p
         IN
         CASE command = \h00 ->
                WithFixed(q, 2, 0, LAMBDA d : Event("TrackStart", delta, <<>>))
           [] command \in \h01..\h0A \/ command = \hF7 ->
                WithData(q, LAMBDA d : Event("Text", delta, <<command, d>>))
           [] command = \h20 ->
                WithFixed(q, 1, 1, LAMBDA d : Event("ChannelPrefix", delta, d))
           [] command = \h21 ->
                WithFixed(q, 1, 1, LAMBDA d : Event("MidiPort", delta, d))
           [] command = \h2F ->
                WithFixed(q, 0, 0, LAMBDA d : Skipped)
           [] command = \h51 ->
                WithFixed(q, 3, 3, LAMBDA d :
                    Event("Tempo", delta, <<(d[1] * 256 + d[2]) * 256 + d[3]>>))
           [] command = \h54 ->
                WithFixed(q, 5, 5, LAMBDA d : Event("SmpteOffset", delta, d))
           [] command = \h58 ->
                WithFixed(q, 4, 4, LAMBDA d : Event("TimeSignature", delta, d))
           [] command = \h59 ->
                WithFixed(q, 2, 2, LAMBDA d : Event("KeySignature", delta, d))
           [] OTHER ->
                WithData(q, LAMBDA d : Event("UnknownMeta", delta, <<command, d>>)))

\* Mutant: a Note On with velocity 0 is passed through.
NoteOnUnnormalized(delta, channel, key, vel) ==
    Event("NoteOn", delta, <<channel, key, vel>>)

\* The `if vel == 0 {...} else {...}` of the arm 0x90.
NoteOnOrOff(delta, channel, key, vel) ==
    IF vel = 0 THEN Event("NoteOff", delta, <<channel, key>>)
    ELSE Event("NoteOn", delta, <<channel, key, vel>>)

\* `match comm {...}`: the event of an effective status byte.
ParseCommand(p, delta, command) ==
    LET comm == (command \div 16) * 16
        channel == command % 16
    IN
    CASE comm = \h80 ->
           WithRead2(p, LAMBDA key, vel : Event("NoteOff", delta, <<channel, key>>))
      [] comm = \h90 ->
           WithRead2(p, LAMBDA key, vel : NoteOnOrOff(delta, channel, key, vel))
      [] comm = \hA0 ->
           WithRead2(p, LAMBDA key, vel :
               Event("PolyphonicKeyPressure", delta, <<channel, key, vel>>))
      [] comm = \hB0 ->
           WithRead2(p, LAMBDA controller, value :
               Event("ControlChange", delta, <<channel, controller, value>>))
      [] comm = \hC0 ->
           WithRead(p, LAMBDA program :
               Event("ProgramChange", delta, <<channel, program>>))
      [] comm = \hD0 ->
           WithRead(p, LAMBDA pressure :
               Event("ChannelPressure", delta, <<channel, pressure>>))
      [] comm = \hE0 ->
           WithRead2(p, LAMBDA var1, var2 :
               Event("PitchWheelChange", delta,
                     <<channel, I16(I16(Or7(I16(var2 * 128), var1)) - 8192)>>))
      [] OTHER ->
           CASE command = \hF0 ->
                  WithData(p, LAMBDA d : Event("SystemExclusiveMessage", delta, <<d>>))
             [] command = \hF2 ->
                  WithRead2(p, LAMBDA var1, var2 :
                      Event("SongPositionPointer", delta,
                            <<Or7((var2 * 128) % 65536, var1)>>))
             [] command = \hF3 ->
                  WithRead(p, LAMBDA pos : Event("SongSelect", delta, <<pos>>))
             [] command = \hF6 -> Ok(Event("TuneRequest", delta, <<>>), p)
             [] command = \hF7 -> Ok(Event("EndOfExclusive", delta, <<>>), p)
             [] command = \hF8 -> Ok(Event("EndOfExclusive", delta, <<>>), p)
             [] command = \hFF -> ParseMeta(p, delta)
             [] OTHER -> Ok(Event("Undefined", delta, <<command>>), p)

\* The decoder once the command byte c is read: a byte without the high bit is
\* pushed back and the previous command takes its place.
WithCommand(c) ==
    LET command == IF c.v < \h80 THEN c.p.prev_command ELSE c.v IN
    [c.p EXCEPT !.pushback = IF c.v < \h80 THEN c.v ELSE @,
                !.prev_command = command]

try_parse_next_event(p) ==
    Try(read_var_length(p), LAMBDA delta :
        Try(read(delta.p), LAMBDA c :
            Let(WithCommand(c), LAMBDA q :
                ParseCommand(q, delta.v, q.prev_command))))

\* What one call of next() returns, with where its last event began (history).
Returned(tag, v, p, h) ==
    [tag |-> tag, v |-> v, p |-> p, skipped |-> h.skipped, ev_pos |-> h.ev_pos,
     ev_pushback |-> h.ev_pushback, ev_prev |-> h.ev_prev]

NoItem == [kind |-> "None"]

\* Mutants of the Err arm of next(): errored is not set.
OnErrKeepGoing(r, h) == Returned("Err", r.v, r.p, h)

\* `Err(e) => { self.errored = true; return Some(Err(e)); }`
OnErr(r, h) == Returned("Err", r.v, [r.p EXCEPT !.errored = TRUE], h)

\* Mutant: a skipped event ends the iteration.
OnSkippedStop(p, h) == Returned("None", NoItem, [p EXCEPT !.errored = TRUE], h)

RECURSIVE NextLoop(_, _)
\* Mutant: a skipped event sets errored before the loop goes on.
OnSkippedTerminate(p, h) ==
    Let([h EXCEPT !.skipped = @ + 1], LAMBDA g :
        NextLoop([p EXCEPT !.errored = TRUE], g))

\* `Ok(None) => continue`
OnSkipped(p, h) == Let([h EXCEPT !.skipped = @ + 1], LAMBDA g : NextLoop(p, g))

\* The loop of TrackParser::next.
NextLoop(p, h) ==
    IF p.errored THEN Returned("None", NoItem, p, h)
    ELSE Let([p EXCEPT !.reader.queries = @ + 1], LAMBDA q :
         IF IsAtEnd(q) THEN Returned("None", NoItem, q, h)
         ELSE Let([h EXCEPT !.ev_pos = q.reader.pos, !.ev_pushback = q.pushback,
                            !.ev_prev = q.prev_command], LAMBDA g :
              Let(try_parse_next_event(q), LAMBDA r :
                  IF ~r.ok THEN OnErr(r, g)
                  ELSE IF r.v = Skipped THEN OnSkipped(r.p, g)
                  ELSE Returned("Ok", r.v, r.p, g))))

TrackParserNext(p) ==
    NextLoop(p, [skipped |-> 0, ev_pos |-> p.reader.pos, ev_pushback |-> p.pushback,
                 ev_prev |-> p.prev_command])

\* One entry of the log of calls: the item and the decoder around the call.
Call(p, r) ==
    [tag |-> r.tag, v |-> r.v, start_pos |-> p.reader.pos, end_pos |-> r.p.reader.pos,
     start_pushback |-> p.pushback,
     was_errored |-> p.errored, errored |-> r.p.errored, pushback |-> r.p.pushback,
     skipped |-> r.skipped, ev_pos |-> r.ev_pos, ev_pushback |-> r.ev_pushback,
     ev_prev |-> r.ev_prev, reads |-> r.p.reader.reads,
     queries |-> r.p.reader.queries]

\* checkpoint(): the snapshot of the decoder between two events.
ParserCheckpoint(p) ==
    [pushback |-> p.pushback, prev_command |-> p.prev_command,
     reader_pos |-> p.reader.pos, ended |-> p.errored]

\* The assert_eq! of from_checkpoint.
ReaderPosMatches(reader, c) == c.reader_pos = reader.pos

\* Mutant: the running status of the snapshot is not restored.
from_checkpoint_no_status(reader, c) ==
    TrackParser(reader, c.pushback, 0, c.ended)

from_checkpoint(reader, c) ==
    TrackParser(reader, c.pushback, c.prev_command, c.ended)

\* ----------------------------------------------------------- decoder inputs
NoteOn3C == <<\h00, \h90, \h3C, \h40>>
Tempo == <<\h00, \hFF, \h51, \h03, \h07, \hA1, \h20>>
EndOfTrack == <<\h00, \hFF, \h2F, \h00>>

\* Pieces of tracks: whole events, events without a status byte, one with a
\* misdeclared length, one cut short.
Chunks ==
    {NoteOn3C, Tempo, EndOfTrack,
     <<\h00, \h3E, \h40>>,
     <<\h00, \h05>>,
     <<\h00, \h90, \h3C, \h00>>,
     <<\h00, \hFF, \h51, \h02, \h07, \hA1>>,
     <<\h00, \hF6>>,
     <<\h81, \h00, \hC0, \h05>>,
     <<\h00, \hF0, \h01, \h7F>>,
     <<\h00, \h90, \h3C>>}

RECURSIVE Concats(_, _)
\* The concatenations of at most n elements of the set `chunks`.
Concats(chunks, n) ==
    IF n = 0 THEN {<<>>}
    ELSE {<<>>} \cup {c \o t : c \in chunks, t \in Concats(chunks, n - 1)}

Tracks == Concats(Chunks, MaxChunks)

\* Meta events of the fixed-layout sub-types with every declared length, with
\* and without the status byte, after nothing, a note or a meta event.
FixedMeta == {\h00, \h20, \h21, \h2F, \h51, \h54, \h58, \h59}

MetaTracks ==
    {pre \o <<\h00>> \o status \o <<sub, len>> \o payload \o post :
        pre \in {<<>>, NoteOn3C, Tempo}, status \in {<<>>, <<\hFF>>},
        sub \in FixedMeta, len \in 0..MaxMetaLen,
        payload \in {<<>>, <<\h01, \h02>>, <<\h01, \h02, \h03, \h04, \h05>>},
        post \in {<<>>, NoteOn3C}}

\* The merger of a specification that runs the decoder only.
MergeIdle ==
    /\ array = <<>> /\ iters = <<>> /\ seqences = <<>> /\ k = 1 /\ pc = "done"
    /\ smallest_index = 1 /\ smallest_time = 0 /\ next = NoneItem /\ mout = <<>>
    /\ scan = <<>> /\ mhist = <<>> /\ errSnap = <<>>

ParserInit(tracks) ==
    /\ MergeIdle
    /\ \E data \in tracks : parser = new(Reader(data, 0))
    /\ pout = <<>>
    /\ checkpoint = <<>>
    /\ restored = <<>>
    /\ rout = <<>>

IdleCalls(log) == Cardinality({a \in 1..Len(log) : log[a].tag = "None"})

\* A call of next() on the decoder.
ParserNext ==
    /\ IdleCalls(pout) < MaxIdleCalls
    /\ \E r \in {TrackParserNext(parser)} :
         /\ parser' = r.p
         /\ pout' = Append(pout, Call(parser, r))
    /\ UNCHANGED <<checkpoint, restored, rout, mergeVars>>

SpecParser == ParserInit(Tracks) /\ [][ParserNext]_vars

SpecMeta == ParserInit(MetaTracks) /\ [][ParserNext]_vars

\* One event of every status byte with two data bytes, then nothing, an event
\* without a status byte or a note.
DataBytes == {\h00, \h3C, \h7F, \h80}

StatusTracks ==
    UNION {{<<\h00, status, a, b>> \o post : post \in {<<>>, <<\h00, b, a>>, NoteOn3C}} :
              status \in 0..255, a \in DataBytes, b \in DataBytes}

\* One meta event of every sub-type, with a declared length and payload bytes.
MetaSubTracks ==
    {<<\h00, \hFF, sub, len>> \o payload :
        sub \in 0..255, len \in 0..2, payload \in {<<>>, <<\h01, \h02>>}}

SpecStatus == ParserInit(StatusTracks \cup MetaSubTracks) /\ [][ParserNext]_vars

\* One Pitch Wheel event with every pair of bytes after the status.
PitchTracks ==
    {<<\h00, status, lsb, msb>> : status \in {\hE0, \hEF}, lsb \in 0..255, msb \in 0..255}

SpecPitch == ParserInit(PitchTracks) /\ [][ParserNext]_vars

\* ------------------------------------------------- variable-length integers
ContinuationBytes == {\h80, \h81, \hFF}
FinalBytes == {\h00, \h7F}

RECURSIVE Continuations(_)
\* The sequences of at most n continuation bytes.
Continuations(n) ==
    IF n = 0 THEN {<<>>}
    ELSE {<<>>} \cup {<<c>> \o t : c \in ContinuationBytes, t \in Continuations(n - 1)}

RECURSIVE Encode(_)
\* The reference encoder: the 7-bit groups of v, most significant first, every
\* byte but the last with the high bit set.
Encode(v) ==
    IF v < 128 THEN <<v>>
    ELSE LET head == Encode(v \div 128) IN
         [a \in 1..Len(head) |-> (head[a] % 128) + 128] \o <<v % 128>>

EncoderValues == (0..16384) \cup {2097151, 2097152, 268435455}

\* A new decoder over an integer cut short, complete, or followed by one more
\* byte, or over an encoding of the reference encoder.
VarLengthInit ==
    /\ MergeIdle
    /\ \/ \E c \in Continuations(MaxVarLen) :
           \E f \in {<<>>} \cup {<<b>> : b \in FinalBytes} :
           \E g \in {<<>>, <<\h81>>} : parser = new(Reader(c \o f \o g, 0))
       \/ \E v \in EncoderValues : parser = new(Reader(Encode(v), 0))
    /\ pout = <<>>
    /\ checkpoint = <<>>
    /\ restored = <<>>
    /\ rout = <<>>

\* A call of read_var_length on a new decoder.
ReadVarLength ==
    /\ pout = <<>>
    /\ \E r \in {read_var_length(parser)} :
         /\ parser' = r.p
         /\ pout' = <<[tag |-> "VarLength", ok |-> r.ok, v |-> r.v,
                       start_pos |-> parser.reader.pos, end_pos |-> r.p.reader.pos]>>
    /\ UNCHANGED <<checkpoint, restored, rout, mergeVars>>

SpecVarLength == VarLengthInit /\ [][ReadVarLength]_vars

\* --------------------------------------------------- checkpoint and restore
CheckpointChunks ==
    {NoteOn3C, EndOfTrack,
     <<\h00, \h3E, \h40>>,
     <<\h00, \h05>>,
     <<\h00, \hF6>>,
     <<\h00, \hFF, \h51, \h02, \h07, \hA1>>}

CheckpointTracks == Concats(CheckpointChunks, MaxChunks)

\* A call of next() on the decoder while a snapshot may still be taken of it
\* or a restored decoder runs beside it.
OriginalNext ==
    /\ IdleCalls(pout) < MaxIdleCalls
    /\ \E r \in {TrackParserNext(parser)} :
         /\ parser' = r.p
         /\ pout' = Append(pout, Call(parser, r))
    /\ UNCHANGED <<checkpoint, restored, rout, mergeVars>>

TakeCheckpoint ==
    /\ checkpoint = <<>>
    /\ checkpoint' = <<ParserCheckpoint(parser), Len(pout)>>
    /\ UNCHANGED <<parser, pout, restored, rout, mergeVars>>

\* from_checkpoint over a byte-source of the same track at position pos.
Restore ==
    /\ checkpoint # <<>>
    /\ restored = <<>>
    /\ \E pos \in 0..Len(parser.reader.data) :
         LET reader == Reader(parser.reader.data, pos) IN
         restored' = IF ReaderPosMatches(reader, checkpoint[1])
                     THEN <<[state |-> "built", pos |-> pos,
                             p |-> from_checkpoint(reader, checkpoint[1])]>>
                     ELSE <<[state |-> "panic", pos |-> pos,
                             p |-> new(reader)]>>
    /\ UNCHANGED <<parser, pout, checkpoint, rout, mergeVars>>

\* A call of next() on the restored decoder.
RestoredNext ==
    /\ restored # <<>>
    /\ restored[1].state = "built"
    /\ IdleCalls(rout) < MaxIdleCalls
    /\ \E r \in {TrackParserNext(restored[1].p)} :
         /\ restored' = <<[restored[1] EXCEPT !.p = r.p]>>
         /\ rout' = Append(rout, Call(restored[1].p, r))
    /\ UNCHANGED <<parser, pout, checkpoint, mergeVars>>

CheckpointNext == OriginalNext \/ TakeCheckpoint \/ Restore \/ RestoredNext

SpecCheckpoint == ParserInit(CheckpointTracks) /\ [][CheckpointNext]_vars

\* ------------------------------------------------------ merger: properties
ErrorFree == \A i \in 1..Len(array) : \A j \in 1..Len(array[i]) : array[i][j].tag = "Ok"
FromStream(i) == SelectSeq(mout, LAMBDA e : e.src = i)
Prefix(s, t) == Len(s) <= Len(t) /\ s = SubSeq(t, 1, Len(s))
MinTime(live) == CHOOSE t \in {live[c].time : c \in 1..Len(live)} :
                    \A c \in 1..Len(live) : t <= live[c].time
TimesOf(s) == [a \in 1..Len(s) |-> s[a].time]

\* C1: over error-free sorted input streams, what merge_notes_array yields is
\* non-decreasing in start time.
C1_OutputSorted ==
    ErrorFree => \A a \in 1..Len(mout) - 1 : mout[a].time <= mout[a + 1].time

C1_Witness ==
    /\ ErrorFree /\ pc = "done"
    /\ \E a \in 1..Len(mout) : \E b \in a + 1..Len(mout) : \E c \in b + 1..Len(mout) :
          /\ mout[a].src = mout[c].src /\ mout[b].src # mout[a].src
          /\ mout[a].time < mout[b].time /\ mout[b].time < mout[c].time

\* C2: over error-free sorted input streams the merger yields every input value
\* exactly once, each stream's values in their input order, and then ends; over
\* no streams or only exhausted ones it yields nothing.
C2_YieldsUnion ==
    ErrorFree =>
        /\ pc # "panic"
        /\ \A a \in 1..Len(mout) : mout[a].tag = "Ok" /\ mout[a].src \in 1..Len(array)
        /\ \A i \in 1..Len(array) : Prefix(FromStream(i), array[i])
        /\ pc = "done" => \A i \in 1..Len(array) : FromStream(i) = array[i]
        /\ pc # "done" => ENABLED MergeNext

C2_Witness ==
    /\ ErrorFree /\ pc = "done" /\ Len(mout) = MaxNotes
    /\ \E a, b \in 1..Len(mout) : a < b /\ mout[a].src > mout[b].src

\* C3: when a scan finds several live cursors at the minimum start time, the
\* value yielded next is the one of the lowest cursor index, which is the
\* earliest-registered stream still live; [0,5], [0,3], [2] gives 0,0,2,3,5 with
\* stream 1's time-0 value first.
C3_TieLowestIndex ==
    /\ \A a \in 1..Len(mout) : mhist[a] # <<>> =>
          LET live == mhist[a][1]
              tied == {c \in 1..Len(live) : live[c].time = MinTime(live)}
          IN /\ \A c, d \in 1..Len(live) : c < d => live[c].iter < live[d].iter
             /\ mout[a].time = MinTime(live)
             /\ \E c \in tied : mout[a].src = live[c].iter /\ \A d \in tied : c <= d
    /\ (pc = "done" /\ array = MkArray(ExampleTimes, <<0, 0>>))
         => /\ TimesOf(mout) = <<0, 0, 2, 3, 5>>
            /\ mout[1].src = 1 /\ mout[2].src = 2

C3_Witness ==
    \E a \in 1..Len(mout) :
        /\ mhist[a] # <<>>
        /\ LET live == mhist[a][1] IN
             /\ Cardinality({c \in 1..Len(live) : live[c].time = MinTime(live)}) >= 2
             /\ live[1].iter # 1
             /\ mout[a].src = live[1].iter /\ a > 1

\* C4: after a cursor yields a value at time t, its next value is yielded next,
\* with no scan in between, exactly when that next value is also at time t; so
\* one stream's values at one time are yielded contiguously.
HasRun(a) ==
    LET i == mout[a].src
        j == mout[a].idx
    IN j < Len(array[i]) /\ array[i][j + 1].tag = "Ok"
       /\ array[i][j + 1].time = mout[a].time

C4_RunDrain ==
    /\ \A a \in 1..Len(mout) - 1 : mout[a].tag = "Ok" =>
          /\ HasRun(a) => /\ mout[a + 1] = array[mout[a].src][mout[a].idx + 1]
                          /\ mhist[a + 1] = <<>>
          /\ (~HasRun(a) /\ mout[a + 1].tag = "Ok") => mhist[a + 1] # <<>>
    /\ \A a \in 1..Len(mout) : \A b \in a + 1..Len(mout) : \A c \in b + 1..Len(mout) :
          (mout[a].tag = "Ok" /\ mout[c].tag = "Ok" /\ mout[a].src = mout[c].src
              /\ mout[a].time = mout[c].time) => mout[b].src = mout[a].src

C4_Witness ==
    \E a \in 1..Len(mout) - 2 :
        /\ HasRun(a) /\ mhist[a] # <<>> /\ mhist[a + 1] = <<>>
        /\ Cardinality({c \in 1..Len(mhist[a][1]) :
                           mhist[a][1][c].time = mout[a].time}) >= 2
        /\ mout[a + 2].src # mout[a].src /\ mout[a + 2].time = mout[a].time

\* C5: an error pulled from any input stream, in the setup or on a later
\* advance, is yielded once, as the last item: nothing is yielded after it, no
\* stream is pulled after it, and held values of other cursors stay unyielded.
ErrPulled == {e \in UNION {{array[i][j] : j \in 1..iters[i] \cap 1..Len(array[i])}
                             : i \in 1..Len(array)} : e.tag = "Err"}

C5_ErrorTerminal ==
    /\ \A a \in 1..Len(mout) : mout[a].tag = "Err" => a = Len(mout) /\ errSnap # <<>>
    /\ errSnap # <<>> => /\ iters = errSnap[1]
                         /\ pc \in {"yield_error", "done"}
                         /\ mout # <<>> /\ mout[Len(mout)].tag = "Err"
    /\ \A e \in ErrPulled :
          /\ pc = "yielded" \/ (mout # <<>> /\ mout[Len(mout)] = e)
          /\ pc = "yielded" => next = e

C5_Witness ==
    /\ pc = "done" /\ errSnap # <<>> /\ Len(mout) >= 2
    /\ \E c \in 1..Len(seqences) : seqences[c].next.tag = "Ok"


\* ----------------------------------------------------- decoder: properties
\* The bytes a decode starting at position pos with pushback pb goes through.
StreamAt(pb, pos) ==
    (IF pb # -1 THEN <<pb>> ELSE <<>>)
    \o SubSeq(parser.reader.data, pos + 1, Len(parser.reader.data))
Held(pb) == IF pb # -1 THEN 1 ELSE 0
EventStream(e) == StreamAt(e.ev_pushback, e.ev_pos)
StartsWith(s, t) == Len(s) >= Len(t) /\ SubSeq(s, 1, Len(t)) = t

\* C6: a read failure or a fixed-length mismatch sets errored and is returned
\* once; every later call of next() returns None and neither reads from nor
\* queries the byte-source.
C6_DecodeErrorTerminal ==
    \A a \in 1..Len(pout) : pout[a].tag = "Err" =>
        /\ pout[a].errored
        /\ pout[a].v.kind \in {"UnexpectedEOF", "CorruptEvent"}
        /\ \A b \in a + 1..Len(pout) :
              /\ pout[b].tag = "None" /\ pout[b].errored
              /\ pout[b].reads = pout[a].reads
              /\ pout[b].queries = pout[a].queries
              /\ pout[b].end_pos = pout[a].end_pos

C6_Witness ==
    \E a \in 1..Len(pout) :
        /\ pout[a].tag = "Err" /\ pout[a].v.kind = "CorruptEvent"
        /\ pout[a].end_pos < Len(parser.reader.data)
        /\ Len(pout) >= a + 2

\* C7: a well-formed End-of-Track meta event (FF 2F 00) gives no item and does
\* not end the iteration: the same call decodes what follows, and None is
\* returned only at the end of the bytes or after an error.
C7_EndOfTrackSkipped ==
    \A a \in 1..Len(pout) :
        LET e == pout[a]
            s == StreamAt(e.start_pushback, e.start_pos)
            after == e.start_pos + 4 - Held(e.start_pushback)
        IN /\ e.tag = "None" => e.was_errored \/ e.end_pos = Len(parser.reader.data)
           /\ e.tag = "Ok" => e.v.kind # "Skipped"
           /\ (~e.was_errored /\ StartsWith(s, EndOfTrack)) =>
                 /\ e.skipped >= 1
                 /\ Len(s) > 4 => e.end_pos > after
                 /\ Len(s) = 4 => e.tag = "None" /\ ~e.errored /\ e.end_pos = after

C7_Witness ==
    \E a \in 1..Len(pout) :
        /\ StartsWith(StreamAt(pout[a].start_pushback, pout[a].start_pos), EndOfTrack)
        /\ pout[a].tag = "Ok" /\ pout[a].skipped = 1
        /\ pout[a].ev_pos = pout[a].start_pos + 4

\* C8: a fixed-layout meta event whose declared length differs from the size of
\* its sub-type gives a CorruptEvent with the track index and the byte offset
\* reached, no event, and a terminated decoder.
ExpectedLen(sub) ==
    CASE sub = \h00 -> 2 [] sub = \h20 -> 1 [] sub = \h21 -> 1 [] sub = \h2F -> 0
      [] sub = \h51 -> 3 [] sub = \h54 -> 5 [] sub = \h58 -> 4 [] sub = \h59 -> 2

\* Where the declared length is in the bytes of a decode, 0 if they are no
\* fixed-layout meta event: after FF and the sub-type, or after the sub-type
\* alone when the running status is FF.
LenAt(e) ==
    LET s == EventStream(e) IN
    IF Len(s) >= 4 /\ s[1] < \h80 /\ s[2] = \hFF /\ s[3] \in FixedMeta THEN 4
    ELSE IF Len(s) >= 3 /\ s[1] < \h80 /\ s[2] \in FixedMeta /\ e.ev_prev = \hFF THEN 3
    ELSE 0

Misdeclared(e) ==
    /\ ~e.was_errored /\ e.tag # "None" /\ LenAt(e) # 0
    /\ EventStream(e)[LenAt(e)] # ExpectedLen(EventStream(e)[LenAt(e) - 1])

C8_FixedLengthChecked ==
    \A a \in 1..Len(pout) : Misdeclared(pout[a]) =>
        LET e == pout[a]
            offset == e.ev_pos + LenAt(e) - Held(e.ev_pushback)
        IN /\ e.tag = "Err"
           /\ e.v = [kind |-> "CorruptEvent",
                     track_number |-> parser.reader.track_number,
                     position |-> offset]
           /\ e.end_pos = offset
           /\ e.errored
           /\ \A b \in a + 1..Len(pout) : pout[b].tag = "None"

C8_Witness ==
    \E a \in 1..Len(pout) :
        /\ Misdeclared(pout[a])
        /\ StartsWith(EventStream(pout[a]), <<\h00, \hFF, \h51, \h02>>)
        /\ pout[a].tag = "Err" /\ Len(pout) > a

\* C9: an event whose first byte after the delta-time has the high bit clear is
\* decoded with the previous event's status, with that byte as its first data
\* byte and the other data bytes read from the byte-source: the item is the one
\* decoded from the same bytes with the status byte written out, and the byte
\* does not stay behind in the pushback slot.
StatusLess(e) ==
    /\ ~e.was_errored /\ e.tag = "Ok" /\ e.skipped = 0
    /\ Len(EventStream(e)) >= 2
    /\ EventStream(e)[1] < \h80 /\ EventStream(e)[2] < \h80

\* The decode of the same bytes with the status byte written out after the
\* one-byte delta-time.
Explicit(e) ==
    LET s == EventStream(e) IN
    try_parse_next_event(
        TrackParser(Reader(<<s[1], e.ev_prev>> \o SubSeq(s, 2, Len(s)), 0),
                    -1, e.ev_prev, FALSE))

C9_RunningStatus ==
    \A a \in 1..Len(pout) : (StatusLess(pout[a]) /\ pout[a].ev_prev >= \h80) =>
        /\ Explicit(pout[a]).ok
        /\ pout[a].v = Explicit(pout[a]).v
        /\ pout[a].pushback = -1

\* What holds of the code: the same, for a channel-voice running status.
C9_ChannelVoiceRunningStatus ==
    \A a \in 1..Len(pout) :
        (StatusLess(pout[a]) /\ pout[a].ev_prev \in \h80..\hEF) =>
            /\ Explicit(pout[a]).ok
            /\ pout[a].v = Explicit(pout[a]).v
            /\ pout[a].pushback = -1
            /\ pout[a].end_pos - pout[a].ev_pos + Held(pout[a].ev_pushback) + 1
                   = Explicit(pout[a]).p.reader.pos

\* C10: the decoder from_checkpoint builds from a snapshot, over a byte-source at
\* the snapshot's position, returns what the original decoder returns after the
\* snapshot; from_checkpoint panics when the position differs.
Item(e) == <<e.tag, e.v, e.start_pos, e.end_pos>>

C10_CheckpointRestore ==
    restored # <<>> =>
        /\ restored[1].state = "panic" <=> restored[1].pos # checkpoint[1].reader_pos
        /\ restored[1].state = "panic" => rout = <<>>
        /\ \A a \in 1..Len(rout) : checkpoint[2] + a <= Len(pout) =>
              Item(rout[a]) = Item(pout[checkpoint[2] + a])

C10_Witness ==
    /\ restored # <<>> /\ checkpoint # <<>>
    /\ checkpoint[2] >= 1 /\ Len(rout) >= 2 /\ Len(pout) >= checkpoint[2] + 2
    /\ rout[1].tag = "Ok" /\ rout[1].v.kind = "NoteOn"
    /\ StatusLess(rout[1])
    /\ rout[2].tag = "Err"

\* The effective status of a decode with a one-byte delta-time, and the bytes
\* after it: the data bytes of a channel-voice event.
EffectiveStatus(e) ==
    IF EventStream(e)[2] >= \h80 THEN EventStream(e)[2] ELSE e.ev_prev
DataOf(e) ==
    LET s == EventStream(e) IN
    SubSeq(s, IF s[2] >= \h80 THEN 3 ELSE 2, Len(s))
Decoded(e) ==
    /\ ~e.was_errored /\ e.tag # "None"
    /\ Len(EventStream(e)) >= 2 /\ EventStream(e)[1] < \h80

\* C11: an event with effective status 0x9n and velocity byte 0 decodes to a Note
\* Off with the same delta, channel and key; with another velocity it decodes to
\* a Note On carrying that velocity.
C11_NoteOnZeroIsNoteOff ==
    \A a \in 1..Len(pout) :
        LET e == pout[a]
            d == DataOf(e)
        IN (Decoded(e) /\ EffectiveStatus(e) \in \h90..\h9F /\ Len(d) >= 2) =>
              /\ e.tag = "Ok"
              /\ e.v.delta = U64(EventStream(e)[1])
              /\ d[2] = 0 =>
                    /\ e.v.kind = "NoteOff"
                    /\ e.v.args = <<EffectiveStatus(e) % 16, d[1]>>
              /\ d[2] # 0 =>
                    /\ e.v.kind = "NoteOn"
                    /\ e.v.args = <<EffectiveStatus(e) % 16, d[1], d[2]>>

C11_Witness ==
    /\ Len(pout) >= 2
    /\ Decoded(pout[1]) /\ EffectiveStatus(pout[1]) = \h95
    /\ pout[1].tag = "Ok" /\ pout[1].v.kind = "NoteOn"
    /\ Decoded(pout[2]) /\ EventStream(pout[2])[2] < \h80
    /\ DataOf(pout[2]) = <<\h7F, \h00>>
    /\ pout[2].tag = "Ok" /\ pout[2].v.kind = "NoteOff"

\* C12: read_var_length consumes the bytes up to and including the first one
\* with the high bit clear and returns the concatenation of their 7-bit payloads
\* modulo 2^64, however many bytes there are; it inverts the reference encoder;
\* when the bytes end before such a byte it returns the read failure.
FirstFinal(data) ==
    IF \E a \in 1..Len(data) : data[a] < \h80
    THEN CHOOSE a \in 1..Len(data) : data[a] < \h80 /\ \A b \in 1..a - 1 : data[b] >= \h80
    ELSE 0

\* Bit i, from the least significant, of the concatenated payloads of bytes.
PayloadBit(bytes, i) ==
    IF i \div 7 >= Len(bytes) THEN 0
    ELSE (bytes[Len(bytes) - (i \div 7)] \div (2 ^ (i % 7))) % 2

RECURSIVE PayloadBits(_, _, _)
\* The number made of the `count` bits from bit `from` on.
PayloadBits(bytes, from, count) ==
    IF count = 0 THEN 0
    ELSE PayloadBit(bytes, from) + 2 * PayloadBits(bytes, from + 1, count - 1)

\* The value of the payloads modulo 2^64, as four 16-bit limbs.
PayloadValue(bytes) ==
    <<PayloadBits(bytes, 48, 16), PayloadBits(bytes, 32, 16),
      PayloadBits(bytes, 16, 16), PayloadBits(bytes, 0, 16)>>

RECURSIVE BigEndian128(_)
BigEndian128(bytes) ==
    IF bytes = <<>> THEN 0
    ELSE BigEndian128(SubSeq(bytes, 1, Len(bytes) - 1)) * 128 + (bytes[Len(bytes)] % 128)

C12_ReadVarLength ==
    (pout # <<>> /\ pout[1].tag = "VarLength") =>
        LET data == parser.reader.data
            last == FirstFinal(data)
            r == pout[1]
        IN /\ last # 0 =>
                /\ r.ok
                /\ r.end_pos = last
                /\ r.v = PayloadValue(SubSeq(data, 1, last))
                /\ last <= 4 => r.v = U64(BigEndian128(SubSeq(data, 1, last)))
           /\ last = 0 =>
                /\ ~r.ok /\ r.v.kind = "UnexpectedEOF"
                /\ r.end_pos = Len(data)
           /\ (Len(data) <= 4 /\ data = Encode(BigEndian128(data))) =>
                r.ok /\ r.v = U64(BigEndian128(data)) /\ r.end_pos = Len(data)
           /\ data = <<\h00>> => r.v = U64(0)
           /\ data = <<\h81, \h00>> => r.v = U64(128)
           /\ data = <<\hFF, \h7F>> => r.v = U64(16383)

\* Ten bytes whose 70 bits of payload do not fit: the top bits are lost.
C12_Witness ==
    /\ pout # <<>> /\ pout[1].tag = "VarLength"
    /\ parser.reader.data = <<\hFF, \hFF, \hFF, \hFF, \hFF, \hFF, \hFF, \hFF, \hFF, \h7F, \h81>>
    /\ pout[1].ok /\ pout[1].end_pos = 10
    /\ pout[1].v = <<65535, 65535, 65535, 65535>>

\* C13, as claimed: once an End-of-Track meta event is consumed the terminated
\* flag is set and the decoder gives no further item, even when bytes remain.
C13_EndOfTrackTerminates ==
    \A a \in 1..Len(pout) : (~pout[a].was_errored /\ pout[a].skipped >= 1) =>
        /\ pout[a].errored
        /\ pout[a].tag = "None"
        /\ \A b \in a + 1..Len(pout) : pout[b].tag = "None"

\* C13, amended: only a decode error sets the terminated flag; consuming an
\* End-of-Track meta event leaves it unset, and the decoder goes on to give the
\* items of the bytes that remain.
C13_OnlyErrorsTerminate ==
    \A a \in 1..Len(pout) :
        /\ pout[a].errored <=> (pout[a].was_errored \/ pout[a].tag = "Err")
        /\ (~pout[a].was_errored /\ pout[a].skipped >= 1) =>
              /\ pout[a].tag = "None" => pout[a].end_pos = Len(parser.reader.data)
              /\ pout[a].tag = "Ok" =>
                    /\ ~pout[a].errored
                    /\ pout[a].ev_pos > pout[a].start_pos

C13_Witness ==
    /\ Len(pout) >= 2
    /\ pout[1].tag = "Ok" /\ pout[1].skipped = 1 /\ ~pout[1].errored
    /\ StartsWith(StreamAt(pout[1].start_pushback, pout[1].start_pos), EndOfTrack)
    /\ pout[1].ev_pos = 4 /\ pout[1].v.kind = "Tempo"
    /\ pout[2].tag = "Ok" /\ pout[2].skipped = 0 /\ ~parser.errored

\* C14: in every reachable state of the decoder prev_command is 0 or a status
\* byte in 0x80..0xEF: no 0xF-range status is kept as the running status.
C14_RunningStatusChannelVoice ==
    parser.prev_command = 0 \/ parser.prev_command \in \h80..\hEF

\* C15: the merger holds at most one value per input that it has not yielded:
\* the values pulled from an input are at most one more than its values in the
\* output; when the scan runs every cursor holds the last value pulled from its
\* input, with that value's time as the cursor's time, every input that is not
\* exhausted has exactly one cursor and an exhausted one has none; taking the
\* held value never fails.
PulledValues(i) == IF iters[i] <= Len(array[i]) THEN iters[i] ELSE Len(array[i])
CursorsOf(i) == {c \in 1..Len(seqences) : seqences[c].iter = i}

C15_OneBufferedPerStream ==
    /\ pc # "panic"
    /\ Len(seqences) <= Len(array)
    /\ \A i \in 1..Len(array) :
          /\ PulledValues(i) <= Len(FromStream(i)) + 1
          /\ Cardinality(CursorsOf(i)) <= 1
    /\ pc = "while" =>
          /\ \A c \in 1..Len(seqences) :
                LET cur == seqences[c] IN
                /\ cur.next.tag = "Ok"
                /\ cur.next.time = cur.time
                /\ iters[cur.iter] \in 1..Len(array[cur.iter])
                /\ cur.next = array[cur.iter][iters[cur.iter]]
                /\ PulledValues(cur.iter) = Len(FromStream(cur.iter)) + 1
          /\ \A i \in 1..Len(array) :
                IF iters[i] > Len(array[i])
                THEN CursorsOf(i) = {} /\ Len(FromStream(i)) = Len(array[i])
                ELSE Cardinality(CursorsOf(i)) = 1

C15_Witness ==
    /\ pc = "while" /\ Len(array) = 3 /\ Len(seqences) = 2 /\ Len(mout) >= 3
    /\ \E i \in 1..Len(array) :
          iters[i] > Len(array[i]) /\ Len(array[i]) >= 1 /\ CursorsOf(i) = {}
    /\ \E i \in 1..Len(array) :
          Len(FromStream(i)) >= 1 /\ PulledValues(i) = Len(FromStream(i)) + 1

\* C16: a Track Start meta event (FF 00 with declared length 2) advances the
\* byte-source by the length of its encoding, the two payload bytes included, so
\* the next delta-time is decoded from the byte after the payload.
C16_TrackStartPayloadConsumed ==
    \A a \in 1..Len(pout) :
        (/\ pout[a].tag = "Ok" /\ pout[a].v.kind = "TrackStart" /\ LenAt(pout[a]) # 0
         /\ Len(EventStream(pout[a])) >= LenAt(pout[a]) + 2) =>
            pout[a].end_pos
                = pout[a].ev_pos - Held(pout[a].ev_pushback) + LenAt(pout[a]) + 2

\* C17: an effective status that is no recognized message (below 0x80, or in the
\* 0xF range and not F0, F2, F3, F6, F7 or FF) decodes to an Undefined event
\* carrying the status; a meta sub-type without a layout of its own decodes to
\* an Unknown Meta event carrying the sub-type and the payload.
Recognized == (\h80..\hEF) \cup {\hF0, \hF2, \hF3, \hF6, \hF7, \hFF}
TextMeta == (\h01..\h0A) \cup {\hF7}

UndefinedFor(statuses) ==
    \A a \in 1..Len(pout) :
        (Decoded(pout[a]) /\ EffectiveStatus(pout[a]) \in statuses) =>
            /\ pout[a].tag = "Ok"
            /\ pout[a].v = [kind |-> "Undefined",
                            delta |-> U64(EventStream(pout[a])[1]),
                            args |-> <<EffectiveStatus(pout[a])>>]

UnknownMetaKept ==
    \A a \in 1..Len(pout) :
        LET e == pout[a]
            d == DataOf(e)
        IN (/\ Decoded(e) /\ EffectiveStatus(e) = \hFF /\ Len(d) >= 2
            /\ d[1] \notin FixedMeta \cup TextMeta
            /\ d[2] < \h80 /\ Len(d) >= 2 + d[2]) =>
              /\ e.tag = "Ok"
              /\ e.v = [kind |-> "UnknownMeta", delta |-> U64(EventStream(e)[1]),
                        args |-> <<d[1], SubSeq(d, 3, 2 + d[2])>>]

C17_UnrecognizedIsUndefined ==
    UndefinedFor((0..255) \ Recognized) /\ UnknownMetaKept

\* What holds of the code: the same but for the status 0xF8.
C17_UndefinedButF8 ==
    UndefinedFor((0..255) \ (Recognized \cup {\hF8})) /\ UnknownMetaKept

\* C18: for every pair of bytes (lsb, msb) in 0..255 after a Pitch Wheel status
\* the decoded value is ((msb << 7) | lsb) - 8192 without overflow of the 16-bit
\* arithmetic, and lies in -8192..8191.
\* x | y = x + y - (x & y), and msb << 7 and lsb share bit 7 at most.
PitchOf(e) ==
    LET lsb == DataOf(e)[1]
        msb == DataOf(e)[2]
    IN (msb * 128) + lsb - (IF msb % 2 = 1 /\ lsb >= \h80 THEN 128 ELSE 0) - 8192
IsPitch(e) ==
    /\ Decoded(e) /\ EffectiveStatus(e) \in \hE0..\hEF /\ Len(DataOf(e)) >= 2
    /\ e.tag = "Ok" /\ e.v.kind = "PitchWheelChange"

C18_PitchWheelRange ==
    \A a \in 1..Len(pout) : IsPitch(pout[a]) =>
        /\ pout[a].v.args[2] = PitchOf(pout[a])
        /\ pout[a].v.args[2] \in -8192..8191

\* What holds of the code: no overflow, and the range for an msb below 0x80.
C18_PitchWheelNoOverflow ==
    \A a \in 1..Len(pout) : IsPitch(pout[a]) =>
        /\ pout[a].v.args[2] = PitchOf(pout[a])
        /\ pout[a].v.args[2] \in -8192..24575
        /\ pout[a].v.args[2] \in -8192..8191 <=> DataOf(pout[a])[2] < \h80

\* C19: the pushback slot is empty or holds one byte below 0x80; the decode of
\* an event stores a byte in it only when the reads before have emptied it; after
\* a channel-voice event is returned it is empty.
SlotOk(p) == p.pushback = -1 \/ p.pushback \in 0..\h7F

RECURSIVE StoresOnEmpty(_)
\* The events the next call of next() on p decodes find the slot empty where
\* they store the command byte in it.
StoresOnEmpty(p) ==
    IF p.errored \/ IsAtEnd(p) THEN TRUE
    ELSE Let(read_var_length(p), LAMBDA delta :
         IF ~delta.ok THEN TRUE
         ELSE Let(read(delta.p), LAMBDA c :
              IF ~c.ok THEN TRUE
              ELSE /\ c.v < \h80 => c.p.pushback = -1
                   /\ Let(try_parse_next_event(p), LAMBDA r :
                          (r.ok /\ r.v = Skipped) => StoresOnEmpty(r.p))))

ChannelVoice ==
    {"NoteOff", "NoteOn", "PolyphonicKeyPressure", "ControlChange", "ProgramChange",
     "ChannelPressure", "PitchWheelChange"}

C19_PushbackSlot ==
    /\ SlotOk(parser)
    /\ StoresOnEmpty(parser)
    /\ \A a \in 1..Len(pout) :
          /\ pout[a].pushback = -1 \/ pout[a].pushback \in 0..\h7F
          /\ (pout[a].tag = "Ok" /\ pout[a].v.kind \in ChannelVoice) =>
                pout[a].pushback = -1

C19_Witness ==
    \E a \in 1..Len(pout) : \E b \in a + 1..Len(pout) :
        /\ pout[a].start_pushback = -1 /\ pout[a].pushback \in 0..\h7F
        /\ pout[a].tag = "Ok"
        /\ pout[b].start_pushback \in 0..\h7F
        /\ pout[b].tag = "Ok" /\ pout[b].v.kind \in ChannelVoice
        /\ pout[b].pushback = -1

====
